---- MODULE Spec2Model ----
(***************************************************************************)
(* A model of the storefront backend: the product catalog, the per-user    *)
(* carts, the orders, and the HTTP handlers that read and write them.      *)
(*                                                                         *)
(* The handlers of controllers/orderController.js that the concurrency     *)
(* properties are about (createOrder, cancelOrder, updateOrderStatus,      *)
(* updateOrderToPaid) are modelled one database operation (one await) per  *)
(* action, so that requests interleave where the event loop lets them.     *)
(* The cart and product handlers are one action each.  A request occupies  *)
(* a slot of reqs from its first database operation until its response     *)
(* has been read (Close); a finished request keeps its HTTP status there.  *)
(*                                                                         *)
(* Money is an integer; every price of the model is a multiple of 10, so   *)
(* that the 10% tax of the code (a float product) is an exact integer.     *)
(***************************************************************************)
EXTENDS Integers, Sequences, FiniteSets, TLC

\* ------------------------------------------------------------------ bounds

\* Requests in flight at once.
MaxReq == 2
\* Orders the order store holds.
MaxOrders == 2
\* Largest quantity a cart request asks for.
MaxQty == 2
\* Largest stock an admin sets; the catalog starts with it.
MaxStock == 2
\* Admin edits of the catalog (updateProduct, deleteProduct) in a run.
MaxAdminEdits == 1
\* Requests the server receives in a run.
MaxRequests == 4
\* Storage failures (an awaited operation that throws) in a run.
MaxFails == 1
MaxCartQty == 3
MaxCartStock == 10

\* ------------------------------------------------------- program constants

FreeShippingOver == 100
FlatShipping == 10
TaxPercent == 10

\* -------------------------------------------------------------- the domain

Shoppers == {"u1", "u2"}
Admin == "admin"
Principals == Shoppers \cup {Admin}
Products == {"p1", "p2"}
Prices == {20, 50}
OrderStatuses == {"Processing", "Shipped", "Delivered", "Cancelled"}
Slots == 1..MaxReq
\* The ids a request names: those of the orders there can be.
OrderIds == 1..MaxOrders

VARIABLES products, carts, orders, reqs, clock, nAdmin, nReq, nFails

vars == <<products, carts, orders, reqs, clock, nAdmin, nReq, nFails>>

\* A product document that findById does not find.
\* Product.js:85-94: a product without reviews has rating 0 and numReviews 0. A
\* rating is kept as the fraction sum / n it was computed as.
NoReviews == [reviews |-> <<>>, rating |-> [sum |-> 0, n |-> 1], numReviews |-> 0]

NoProduct ==
  [exists |-> FALSE, isActive |-> FALSE, price |-> 0, stock |-> 0,
   reviews |-> NoReviews.reviews, rating |-> NoReviews.rating,
   numReviews |-> NoReviews.numReviews]

NoEffect == [p \in Products |-> 0]

\* A free request slot.
\* The data of a getOrderStats response before any of its queries has resolved.
NoStats ==
  [totalOrders |-> 0, totalRevenue |-> 0, ordersByStatus |-> {},
   ordersByPaymentStatus |-> {}, monthlyRevenue |-> <<>>]

Idle ==
  [op |-> "idle", user |-> "none", pc |-> "idle", oid |-> 0, items |-> <<>>,
   idx |-> 0, ldStatus |-> "", ldPay |-> "", newStatus |-> "", status |-> 0,
   named |-> "", quantity |-> 0, made |-> 0, eff |-> NoEffect, cleared |-> FALSE,
   isValid |-> FALSE, stats |-> NoStats, rating |-> 0]

IsAdmin(u) == u = Admin

\* The catalog's first prices.
InitPrice(p) == IF p = "p1" THEN 50 ELSE 20

\* ----------------------------------------------------------- pure helpers

RECURSIVE QtyOf(_, _)
\* The quantity of product p that the lines of items order.
QtyOf(items, p) ==
  IF items = <<>> THEN 0
  ELSE (IF Head(items).product = p THEN Head(items).quantity ELSE 0)
       + QtyOf(Tail(items), p)

RECURSIVE SumItems(_)
\* orderController.js:50 totalAmount += price * quantity, over the lines
SumItems(items) ==
  IF items = <<>> THEN 0
  ELSE Head(items).price * Head(items).quantity + SumItems(Tail(items))

ShippingPriceGe(total) == IF total >= FreeShippingOver THEN 0 ELSE FlatShipping

ShippingPrice(total) == IF total > FreeShippingOver THEN 0 ELSE FlatShipping

TaxPrice(total) == (total * TaxPercent) \div 100

\* orderController.js:28 the populated product is null or inactive
LineUnavailable(doc) == ~doc.exists \/ ~doc.isActive

LineShortOff(doc, quantity) == FALSE

\* orderController.js:35
LineShort(doc, quantity) == doc.stock < quantity

LineBad(prods, line) ==
  \/ LineUnavailable(prods[line.product])
  \/ LineShort(prods[line.product], line.quantity)

\* The first line the validation loop of createOrder rejects, 0 when none.
FirstBad(prods, items) ==
  IF \E i \in 1..Len(items) : LineBad(prods, items[i])
  THEN CHOOSE i \in 1..Len(items) :
         /\ LineBad(prods, items[i])
         /\ \A j \in 1..(i - 1) : ~LineBad(prods, items[j])
  ELSE 0

\* orderController.js:31 and :38: the product the 400 message names
NamedProduct(prods, line) ==
  IF prods[line.product].exists THEN line.product ELSE "Unknown"

OrderItemsCartPrice(prods, items) ==
  [i \in 1..Len(items) |->
     [product |-> items[i].product,
      price |-> items[i].price,
      quantity |-> items[i].quantity]]

\* orderController.js:42-48: the snapshot lines, priced from the catalog
OrderItems(prods, items) ==
  [i \in 1..Len(items) |->
     [product |-> items[i].product,
      price |-> prods[items[i].product].price,
      quantity |-> items[i].quantity]]

\* The Order schema's defaults for the fields createOrder does not pass.
OrderDefaults ==
  [paymentStatus |-> "Pending", orderStatus |-> "Processing",
   paidAt |-> 0, deliveredAt |-> 0]

NewOrderPaid(u, items) ==
  [user |-> u, items |-> items,
   itemsPrice |-> SumItems(items),
   shippingPrice |-> ShippingPrice(SumItems(items)),
   taxPrice |-> TaxPrice(SumItems(items)),
   totalAmount |-> SumItems(items) + ShippingPrice(SumItems(items))
                   + TaxPrice(SumItems(items)),
   paymentStatus |-> "Paid", orderStatus |-> "Processing",
   paidAt |-> 0, deliveredAt |-> 0]

\* orderController.js:53-68: the document Order.create is given
NewOrder(u, items) ==
  [user |-> u, items |-> items,
   itemsPrice |-> SumItems(items),
   shippingPrice |-> ShippingPrice(SumItems(items)),
   taxPrice |-> TaxPrice(SumItems(items)),
   totalAmount |-> SumItems(items) + ShippingPrice(SumItems(items))
                   + TaxPrice(SumItems(items))]
  @@ OrderDefaults

\* Cart.clearCart(): every line removed, the cart document kept
ClearedCart(cart) == [cart EXCEPT !.exists = TRUE, !.items = <<>>]

\* The adminOnly middleware of the admin routes
AdminOnly(u) == IsAdmin(u)

IncStockByOne(prods, p, by) ==
  IF prods[p].exists
  THEN [prods EXCEPT ![p].stock = @ + (IF by < 0 THEN -1 ELSE 1)]
  ELSE prods

\* Product.findByIdAndUpdate(id, {$inc: {stock: by}}): nothing without the document
IncStock(prods, p, by) ==
  IF prods[p].exists
  THEN [prods EXCEPT ![p].stock = @ + by]
  ELSE prods

\* What the $inc changed, for the request's account of its own writes.
IncEffect(prods, eff, p, by) ==
  [eff EXCEPT ![p] = @ + (IncStock(prods, p, by)[p].stock - prods[p].stock)]

LineIndexNone(items, p) == 0

\* cartController.js:75-77: the first line of the product, 0 when the cart has none
LineIndex(items, p) ==
  IF \E i \in 1..Len(items) : items[i].product = p
  THEN CHOOSE i \in 1..Len(items) :
         /\ items[i].product = p
         /\ \A j \in 1..(i - 1) : items[j].product # p
  ELSE 0

\* res.status(code).json(...): the handler has answered
Done(r, code) == [r EXCEPT !.pc = "done", !.status = code]

\* A response is read as soon as it is sent: nothing else happens before Close.
NoResponse == \A t \in Slots : reqs[t].pc # "done"

\* A request arrives and takes the first free slot (the slots are interchangeable).
Begin(s) ==
  /\ NoResponse
  /\ reqs[s].pc = "idle"
  /\ \A t \in Slots : t < s => reqs[t].pc # "idle"
  /\ nReq < MaxRequests
  /\ nReq' = nReq + 1

\* Request s, in flight at step pc of handler op, takes its next step.
At(s, op, pc) ==
  /\ NoResponse
  /\ reqs[s].op = op
  /\ reqs[s].pc = pc
  /\ UNCHANGED nReq

\* ------------------------------------------------------------------- Init

Init ==
  /\ products = [p \in Products |->
                   [NoProduct EXCEPT !.exists = TRUE, !.isActive = TRUE,
                                     !.price = InitPrice(p), !.stock = MaxStock]]
  /\ carts = [u \in Shoppers |-> [exists |-> FALSE, items |-> <<>>]]
  /\ orders = <<>>
  /\ reqs = [s \in Slots |-> Idle]
  /\ clock = 0
  /\ nAdmin = 0
  /\ nReq = 0
  /\ nFails = 0

\* ---------------------------------------------------------- cart handlers

MergedNeverExceeds(line, quantity, product) == FALSE

\* cartController.js:79-81: the merged quantity is more than the stock
MergedExceeds(line, quantity, product) == line.quantity + quantity > product.stock


StockShortOfHeld(p, quantity) ==
  \E u \in Shoppers : products[p].stock - QtyOf(carts[u].items, p) < quantity

\* cartController.js:60-65: the product's stock is less than the quantity asked
StockShort(p, quantity) == products[p].stock < quantity

\* cartController.js:39-108
AddToCart(s, u, p, q) ==
  /\ Begin(s)
  /\ LET product == products[p]
         r == [Idle EXCEPT !.op = "addToCart", !.user = u, !.named = p,
                           !.quantity = q]
         cart == IF carts[u].exists THEN carts[u]
                 ELSE [exists |-> TRUE, items |-> <<>>]
         i == LineIndex(cart.items, p)
     IN
     IF ~product.exists
     THEN /\ reqs' = [reqs EXCEPT ![s] = Done(r, 404)]
          /\ UNCHANGED carts
     ELSE IF ~product.isActive \/ StockShort(p, q)
     THEN /\ reqs' = [reqs EXCEPT ![s] = Done(r, 400)]
          /\ UNCHANGED carts
     ELSE IF i # 0 /\ MergedExceeds(cart.items[i], q, product)
     THEN /\ reqs' = [reqs EXCEPT ![s] = Done(r, 400)]
          /\ carts' = [carts EXCEPT ![u] = cart]
     ELSE /\ reqs' = [reqs EXCEPT ![s] = Done(r, 200)]
          /\ carts' = [carts EXCEPT ![u] =
               [exists |-> TRUE,
                items |-> IF i # 0
                          THEN [cart.items EXCEPT ![i].quantity = @ + q]
                          ELSE Append(cart.items,
                                 [product |-> p, quantity |-> q,
                                  price |-> product.price])]]
  /\ UNCHANGED <<products, orders, clock, nAdmin, nFails>>

RECURSIVE SelectLines(_, _, _)
\* Array.filter over the cart's lines: those of product p, or those of the others.
SelectLines(items, p, keep) ==
  IF items = <<>> THEN <<>>
  ELSE (IF (Head(items).product = p) = keep THEN <<Head(items)>> ELSE <<>>)
       \o SelectLines(Tail(items), p, keep)

ActiveItemsAll(prods, items) == items

RECURSIVE ActiveItems(_, _)
\* cartController.js:18-20: the lines whose populated product is there and active
ActiveItems(prods, items) ==
  IF items = <<>> THEN <<>>
  ELSE (IF ~LineUnavailable(prods[Head(items).product])
        THEN <<Head(items)>> ELSE <<>>)
       \o ActiveItems(prods, Tail(items))

\* cartController.js:7-34; idx is the number of lines the read removed
GetCart(s, u) ==
  /\ Begin(s)
  /\ LET cart == IF carts[u].exists THEN carts[u]
                 ELSE [exists |-> TRUE, items |-> <<>>]
         activeItems == ActiveItems(products, cart.items)
         r == [Idle EXCEPT !.op = "getCart", !.user = u, !.items = activeItems,
                           !.idx = Len(cart.items) - Len(activeItems)]
     IN
     /\ carts' = [carts EXCEPT ![u] = [exists |-> TRUE, items |-> activeItems]]
     /\ reqs' = [reqs EXCEPT ![s] = Done(r, 200)]
  /\ UNCHANGED <<products, orders, clock, nAdmin, nFails>>

\* middlewares/validation.js validateObjectId: the request passes when its route
\* has a parameter named id and that parameter is a Mongo id; a route without
\* one gives the check an empty value, which is no Mongo id.
ValidateObjectId(param) == param = "id"

\* routes/cart.js: the parameter of PUT /:productId and DELETE /:productId
CartRouteParam == "productId"

\* Cart.updateItemQuantity(productId, quantity): the line's quantity is set
UpdateItemQuantity(items, p, q) == [items EXCEPT ![LineIndex(items, p)].quantity = q]

\* routes/cart.js PUT /:productId and cartController.js:113-167
UpdateCartItem(s, u, p, q) ==
  /\ Begin(s)
  /\ LET product == products[p]
         r == [Idle EXCEPT !.op = "updateCartItem", !.user = u, !.named = p,
                           !.quantity = q]
     IN
     IF ~ValidateObjectId(CartRouteParam)
     THEN /\ reqs' = [reqs EXCEPT ![s] = Done(r, 400)]
          /\ UNCHANGED carts
     ELSE IF ~product.exists
     THEN /\ reqs' = [reqs EXCEPT ![s] = Done(r, 404)]
          /\ UNCHANGED carts
     ELSE IF ~product.isActive \/ q > product.stock
     THEN /\ reqs' = [reqs EXCEPT ![s] = Done(r, 400)]
          /\ UNCHANGED carts
     ELSE IF ~carts[u].exists \/ LineIndex(carts[u].items, p) = 0
     THEN /\ reqs' = [reqs EXCEPT ![s] = Done(r, 404)]
          /\ UNCHANGED carts
     ELSE /\ reqs' = [reqs EXCEPT ![s] = Done(r, 200)]
          /\ carts' = [carts EXCEPT ![u].items = UpdateItemQuantity(@, p, q)]
  /\ UNCHANGED <<products, orders, clock, nAdmin, nFails>>

\* Cart.removeItem(productId): the lines of the product are filtered out
RemoveItem(items, p) == SelectLines(items, p, FALSE)

RemoveFromCartRestocks(s, u, p) ==
  /\ Begin(s)
  /\ LET r == [Idle EXCEPT !.op = "removeFromCart", !.user = u, !.named = p]
     IN
     IF ~carts[u].exists
     THEN /\ reqs' = [reqs EXCEPT ![s] = Done(r, 404)]
          /\ UNCHANGED <<carts, products>>
     ELSE /\ reqs' = [reqs EXCEPT ![s] = Done(r, 200)]
          /\ carts' = [carts EXCEPT ![u].items = RemoveItem(@, p)]
          /\ products' = IncStock(products, p, QtyOf(carts[u].items, p))
  /\ UNCHANGED <<orders, clock, nAdmin, nFails>>

\* routes/cart.js DELETE /:productId and cartController.js:172-195
RemoveFromCart(s, u, p) ==
  /\ Begin(s)
  /\ LET r == [Idle EXCEPT !.op = "removeFromCart", !.user = u, !.named = p]
     IN
     IF ~ValidateObjectId(CartRouteParam)
     THEN /\ reqs' = [reqs EXCEPT ![s] = Done(r, 400)]
          /\ UNCHANGED carts
     ELSE IF ~carts[u].exists
     THEN /\ reqs' = [reqs EXCEPT ![s] = Done(r, 404)]
          /\ UNCHANGED carts
     ELSE /\ reqs' = [reqs EXCEPT ![s] = Done(r, 200)]
          /\ carts' = [carts EXCEPT ![u].items = RemoveItem(@, p)]
  /\ UNCHANGED <<products, orders, clock, nAdmin, nFails>>

\* cartController.js:200-221
ClearCart(s, u) ==
  /\ Begin(s)
  /\ LET r == [Idle EXCEPT !.op = "clearCart", !.user = u]
     IN
     IF ~carts[u].exists
     THEN /\ reqs' = [reqs EXCEPT ![s] = Done(r, 404)]
          /\ UNCHANGED carts
     ELSE /\ reqs' = [reqs EXCEPT ![s] = Done(r, 200)]
          /\ carts' = [carts EXCEPT ![u] = ClearedCart(@)]
  /\ UNCHANGED <<products, orders, clock, nAdmin, nFails>>

RECURSIVE UpdatedItemsUnclamped(_, _)
UpdatedItemsUnclamped(prods, items) ==
  IF items = <<>> THEN <<>>
  ELSE LET item == Head(items)
           product == prods[item.product]
       IN (IF LineUnavailable(product) THEN <<>>
           ELSE <<[product |-> item.product,
                   quantity |-> item.quantity,
                   price |-> product.price]>>)
          \o UpdatedItemsUnclamped(prods, Tail(items))

RECURSIVE UpdatedItems(_, _)
\* cartController.js:262-297: the lines validateCart keeps, clamped and re-priced
UpdatedItems(prods, items) ==
  IF items = <<>> THEN <<>>
  ELSE LET item == Head(items)
           product == prods[item.product]
       IN (IF LineUnavailable(product) THEN <<>>
           ELSE <<[product |-> item.product,
                   quantity |-> IF product.stock < item.quantity
                                THEN product.stock ELSE item.quantity,
                   price |-> product.price]>>)
          \o UpdatedItems(prods, Tail(items))

RECURSIVE ValidationErrors(_, _)
\* cartController.js:263-290: one validationErrors.push per line found wanting
ValidationErrors(prods, items) ==
  IF items = <<>> THEN 0
  ELSE (IF LineBad(prods, Head(items)) THEN 1 ELSE 0)
       + ValidationErrors(prods, Tail(items))

\* The Cart schema's quantity is a positive integer: a save of a line with less
\* may be refused by the schema's validation.
SaveMayFail(items) == \E i \in 1..Len(items) : items[i].quantity < 1

\* cartController.js:249-317; saves tells whether cart.save() accepts the lines
ValidateCart(s, u, saves) ==
  /\ Begin(s)
  /\ LET r == [Idle EXCEPT !.op = "validateCart", !.user = u]
         cart == carts[u]
         updatedItems == UpdatedItems(products, cart.items)
         validationErrors == ValidationErrors(products, cart.items)
     IN
     IF ~cart.exists \/ cart.items = <<>>
     THEN /\ saves
          /\ reqs' = [reqs EXCEPT ![s] = Done(r, 400)]
          /\ UNCHANGED carts
     ELSE IF Len(updatedItems) # Len(cart.items) \/ validationErrors > 0
     THEN IF saves
          THEN /\ carts' = [carts EXCEPT ![u].items = updatedItems]
               /\ reqs' = [reqs EXCEPT ![s] =
                    [Done(r, 200) EXCEPT !.items = updatedItems,
                                         !.idx = validationErrors,
                                         !.isValid = (validationErrors = 0)]]
          ELSE /\ SaveMayFail(updatedItems)
               /\ reqs' = [reqs EXCEPT ![s] = Done(r, 500)]
               /\ UNCHANGED carts
     ELSE /\ saves
          /\ reqs' = [reqs EXCEPT ![s] =
               [Done(r, 200) EXCEPT !.items = updatedItems, !.idx = 0,
                                    !.isValid = (validationErrors = 0)]]
          /\ UNCHANGED carts
  /\ UNCHANGED <<products, orders, clock, nAdmin, nFails>>

\* ------------------------------------------------------- product handlers

\* The bodies an admin sends for product p: the catalog's first entry for p, or that
\* entry with one field changed (validateProduct requires price and stock).
UpdateBodies(p) ==
  LET first == [isActive |-> TRUE, price |-> InitPrice(p), stock |-> MaxStock]
  IN {first, [first EXCEPT !.isActive = FALSE]}
     \cup {[first EXCEPT !.price = c] : c \in Prices}
     \cup {[first EXCEPT !.stock = n] : n \in 0..MaxStock}

\* productController.js:157-183: one findByIdAndUpdate of the validated body
UpdateProduct(s, p, body) ==
  /\ Begin(s)
  /\ nAdmin < MaxAdminEdits
  /\ nAdmin' = nAdmin + 1
  /\ LET r == [Idle EXCEPT !.op = "updateProduct", !.user = Admin, !.named = p]
     IN
     IF ~products[p].exists
     THEN /\ reqs' = [reqs EXCEPT ![s] = Done(r, 404)]
          /\ UNCHANGED products
     ELSE /\ reqs' = [reqs EXCEPT ![s] = Done(r, 200)]
          /\ products' = [products EXCEPT ![p] =
               [@ EXCEPT !.isActive = body.isActive,
                         !.price = body.price, !.stock = body.stock]]
  /\ UNCHANGED <<carts, orders, clock, nFails>>

\* productController.js:188-206
DeleteProduct(s, p) ==
  /\ Begin(s)
  /\ nAdmin < MaxAdminEdits
  /\ nAdmin' = nAdmin + 1
  /\ LET r == [Idle EXCEPT !.op = "deleteProduct", !.user = Admin, !.named = p]
     IN
     IF ~products[p].exists
     THEN /\ reqs' = [reqs EXCEPT ![s] = Done(r, 404)]
          /\ UNCHANGED products
     ELSE /\ reqs' = [reqs EXCEPT ![s] = Done(r, 200)]
          /\ products' = [products EXCEPT ![p] = NoProduct]
  /\ UNCHANGED <<carts, orders, clock, nFails>>

\* ---------------------------------------------------- createProductReview

\* middlewares/validation.js validateReview: a rating is a whole number of 1 to
\* 5 stars; the lowest and the highest stand for them
Stars == {1, 5}

RECURSIVE SumRatings(_)
\* reviews.reduce((acc, item) => item.rating + acc, 0)
SumRatings(reviews) ==
  IF reviews = <<>> THEN 0 ELSE Head(reviews).rating + SumRatings(Tail(reviews))

\* Product.js:118-128 (and productController.js:243-246): rating and numReviews
\* of a document whose review list is reviews
CalculateRating(reviews) ==
  IF Len(reviews) = 0
  THEN [rating |-> NoReviews.rating, numReviews |-> 0]
  ELSE [rating |-> [sum |-> SumRatings(reviews), n |-> Len(reviews)],
        numReviews |-> Len(reviews)]

\* productController.js:227-229
AlreadyReviewed(reviews, u) == \E i \in 1..Len(reviews) : reviews[i].user = u

\* productController.js:213-236: Product.findById resolves, then the two checks;
\* items is the review list of the document the handler holds
CreateProductReviewFind(s, u, p, rating) ==
  /\ Begin(s)
  /\ LET r == [Idle EXCEPT !.op = "createProductReview", !.user = u,
                           !.named = p, !.rating = rating]
         product == products[p]
     IN
     reqs' = [reqs EXCEPT ![s] =
       IF ~product.exists THEN Done(r, 404)
       ELSE IF AlreadyReviewed(product.reviews, u) THEN Done(r, 400)
       ELSE [r EXCEPT !.pc = "save", !.items = product.reviews]]
  /\ UNCHANGED <<products, carts, orders, clock, nAdmin, nFails>>

\* productController.js:238-253: the review is pushed on the held document,
\* rating and numReviews are computed from the held list, and product.save()
\* sends the push of the one review and the two computed values; a document
\* deleted in between is not found by the save
CreateProductReviewSave(s) ==
  /\ At(s, "createProductReview", "save")
  /\ LET r == reqs[s]
         review == [user |-> r.user, rating |-> r.rating]
         held == Append(r.items, review)
         computed == CalculateRating(held)
     IN
     IF ~products[r.named].exists
     THEN /\ reqs' = [reqs EXCEPT ![s] = Done(r, 500)]
          /\ UNCHANGED products
     ELSE /\ products' = [products EXCEPT ![r.named] =
               [@ EXCEPT !.reviews = Append(@, review),
                         !.numReviews = computed.numReviews,
                         !.rating = computed.rating]]
          /\ reqs' = [reqs EXCEPT ![s] = Done(r, 201)]
  /\ UNCHANGED <<carts, orders, clock, nAdmin, nFails>>

\* ------------------------------------------------------------ createOrder

CartIsMissing(cart) == ~cart.exists

\* orderController.js:16: there is no cart or it has no lines
CartIsEmpty(cart) == ~cart.exists \/ cart.items = <<>>

\* orderController.js:13-21: Cart.findOne resolves
CreateOrderFindCart(s, u) ==
  /\ Begin(s)
  /\ LET r == [Idle EXCEPT !.op = "createOrder", !.user = u]
     IN
     reqs' = [reqs EXCEPT ![s] =
       IF CartIsEmpty(carts[u])
       THEN Done(r, 400)
       ELSE [r EXCEPT !.pc = "populate", !.items = carts[u].items]]
  /\ UNCHANGED <<products, carts, orders, clock, nAdmin, nFails>>

\* orderController.js:14 and 23-56: populate resolves, then the validation loop
CreateOrderPopulate(s) ==
  /\ At(s, "createOrder", "populate")
  /\ LET r == reqs[s]
         bad == FirstBad(products, r.items)
     IN
     reqs' = [reqs EXCEPT ![s] =
       IF bad # 0
       THEN [Done(r, 400) EXCEPT !.idx = bad,
                                 !.named = NamedProduct(products, r.items[bad])]
       ELSE [r EXCEPT !.pc = "create",
                      !.items = OrderItems(products, r.items)]]
  /\ UNCHANGED <<products, carts, orders, clock, nAdmin, nFails>>

\* orderController.js:58-68: Order.create resolves
CreateOrderCreate(s) ==
  /\ At(s, "createOrder", "create")
  /\ Len(orders) < MaxOrders
  /\ orders' = Append(orders, NewOrder(reqs[s].user, reqs[s].items))
  /\ reqs' = [reqs EXCEPT ![s].pc = "stock", ![s].idx = 1,
                          ![s].made = Len(orders) + 1]
  /\ UNCHANGED <<products, carts, clock, nAdmin, nFails>>

\* orderController.js:70-76: one findByIdAndUpdate of the loop resolves
CreateOrderStock(s) ==
  /\ At(s, "createOrder", "stock")
  /\ LET r == reqs[s]
         line == r.items[r.idx]
     IN
     /\ products' = IncStock(products, line.product, -line.quantity)
     /\ reqs' = [reqs EXCEPT ![s] =
          [r EXCEPT !.eff = IncEffect(products, r.eff, line.product, -line.quantity),
                    !.idx = @ + 1,
                    !.pc = IF r.idx = Len(r.items) THEN "clear" ELSE "stock"]]
  /\ UNCHANGED <<carts, orders, clock, nAdmin, nFails>>

CreateOrderClearSkips(s) ==
  /\ At(s, "createOrder", "clear")
  /\ reqs' = [reqs EXCEPT ![s] = [Done(reqs[s], 201) EXCEPT !.cleared = TRUE]]
  /\ UNCHANGED <<products, carts, orders, clock, nAdmin, nFails>>

\* orderController.js:78-85: cart.clearCart() resolves, 201
CreateOrderClear(s) ==
  /\ At(s, "createOrder", "clear")
  /\ carts' = [carts EXCEPT ![reqs[s].user] = ClearedCart(@)]
  /\ reqs' = [reqs EXCEPT ![s] = [Done(reqs[s], 201) EXCEPT !.cleared = TRUE]]
  /\ UNCHANGED <<products, orders, clock, nAdmin, nFails>>

\* ---------------------------------------------------------------- getOrder

OwnerOrAnyone(order, u) == TRUE

\* orderController.js:138 and :169: the order's user or an admin
OwnerOrAdmin(order, u) == order.user = u \/ IsAdmin(u)

\* orderController.js:124-152: Order.findById resolves, then the two checks
GetOrder(s, u, id) ==
  /\ Begin(s)
  /\ LET r == [Idle EXCEPT !.op = "getOrder", !.user = u, !.oid = id]
     IN
     reqs' = [reqs EXCEPT ![s] =
       IF id > Len(orders) THEN Done(r, 404)
       ELSE IF ~OwnerOrAdmin(orders[id], u) THEN Done(r, 403)
       ELSE Done(r, 200)]
  /\ UNCHANGED <<products, carts, orders, clock, nAdmin, nFails>>

\* ------------------------------------------------------------ cancelOrder

CannotCancelTwice(orderStatus) == orderStatus \in {"Cancelled"}

NotOwnerNorAdmin(order, u) == order.user # u /\ ~IsAdmin(u)

\* orderController.js:353: cancelOrder is for the owner alone
NotOwner(order, u) == order.user # u

\* orderController.js:361
CannotCancel(orderStatus) == orderStatus \in {"Delivered", "Cancelled"}

\* orderController.js:343-366: Order.findById resolves, then the three checks
CancelOrderFind(s, u, id) ==
  /\ Begin(s)
  /\ LET r == [Idle EXCEPT !.op = "cancelOrder", !.user = u, !.oid = id]
     IN
     reqs' = [reqs EXCEPT ![s] =
       IF id > Len(orders) THEN Done(r, 404)
       ELSE IF NotOwner(orders[id], u) THEN Done(r, 403)
       ELSE IF CannotCancel(orders[id].orderStatus) THEN Done(r, 400)
       ELSE [r EXCEPT !.pc = "restore", !.idx = 1,
                      !.items = orders[id].items,
                      !.ldStatus = orders[id].orderStatus,
                      !.ldPay = orders[id].paymentStatus]]
  /\ UNCHANGED <<products, carts, orders, clock, nAdmin, nFails>>

\* orderController.js:368-374: one findByIdAndUpdate of the loop resolves
CancelOrderRestore(s) ==
  /\ At(s, "cancelOrder", "restore")
  /\ LET r == reqs[s]
         line == r.items[r.idx]
     IN
     /\ products' = IncStock(products, line.product, line.quantity)
     /\ reqs' = [reqs EXCEPT ![s] =
          [r EXCEPT !.eff = IncEffect(products, r.eff, line.product, line.quantity),
                    !.idx = @ + 1,
                    !.pc = IF r.idx = Len(r.items) THEN "save" ELSE "restore"]]
  /\ UNCHANGED <<carts, orders, clock, nAdmin, nFails>>

CancelOrderSaveUnpays(s) ==
  /\ At(s, "cancelOrder", "save")
  /\ LET r == reqs[s]
     IN
     /\ orders' = [orders EXCEPT ![r.oid] =
          [@ EXCEPT !.orderStatus = "Cancelled", !.paymentStatus = "Pending"]]
     /\ reqs' = [reqs EXCEPT ![s] = Done(r, 200)]
  /\ UNCHANGED <<products, carts, clock, nAdmin, nFails>>

\* orderController.js:376-384: order.save() writes the paths the handler changed
CancelOrderSave(s) ==
  /\ At(s, "cancelOrder", "save")
  /\ LET r == reqs[s]
     IN
     /\ orders' = [orders EXCEPT ![r.oid] =
          [@ EXCEPT !.orderStatus = "Cancelled",
                    !.paymentStatus =
                      IF r.ldPay # "Refunded" THEN "Refunded" ELSE @]]
     /\ reqs' = [reqs EXCEPT ![s] = Done(r, 200)]
  /\ UNCHANGED <<products, carts, clock, nAdmin, nFails>>

\* ------------------------------------------------------ updateOrderStatus

UpdateOrderStatusFindOpen(s, u, id, ns) ==
  /\ Begin(s)
  /\ LET r == [Idle EXCEPT !.op = "updateOrderStatus", !.user = u, !.oid = id,
                           !.newStatus = ns]
     IN
     reqs' = [reqs EXCEPT ![s] =
       IF id > Len(orders) THEN Done(r, 404)
       ELSE [r EXCEPT !.pc = "save", !.ldStatus = orders[id].orderStatus]]
  /\ UNCHANGED <<products, carts, orders, clock, nAdmin, nFails>>

\* routes/orders.js:34 adminOnly, then orderController.js:202-225
UpdateOrderStatusFind(s, u, id, ns) ==
  /\ Begin(s)
  /\ LET r == [Idle EXCEPT !.op = "updateOrderStatus", !.user = u, !.oid = id,
                           !.newStatus = ns]
     IN
     reqs' = [reqs EXCEPT ![s] =
       IF ~AdminOnly(u) THEN Done(r, 403)
       ELSE IF id > Len(orders) THEN Done(r, 404)
       ELSE [r EXCEPT !.pc = "save", !.ldStatus = orders[id].orderStatus]]
  /\ UNCHANGED <<products, carts, orders, clock, nAdmin, nFails>>

UpdateOrderStatusSaveReprices(s) ==
  /\ At(s, "updateOrderStatus", "save")
  /\ LET r == reqs[s]
         stamps == r.newStatus = "Delivered"
         repriced == NewOrder(orders[r.oid].user,
                              OrderItems(products, orders[r.oid].items))
     IN
     /\ clock' = IF stamps THEN clock + 1 ELSE clock
     /\ orders' = [orders EXCEPT ![r.oid] =
          [@ EXCEPT !.orderStatus = r.newStatus,
                    !.deliveredAt = IF stamps THEN clock + 1 ELSE @,
                    !.items = repriced.items,
                    !.itemsPrice = repriced.itemsPrice,
                    !.shippingPrice = repriced.shippingPrice,
                    !.taxPrice = repriced.taxPrice,
                    !.totalAmount = repriced.totalAmount]]
     /\ reqs' = [reqs EXCEPT ![s] = Done(r, 200)]
  /\ UNCHANGED <<products, carts, nAdmin, nFails>>

\* orderController.js:213-233: order.save() writes the paths the handler changed
UpdateOrderStatusSave(s) ==
  /\ At(s, "updateOrderStatus", "save")
  /\ LET r == reqs[s]
         stamps == r.newStatus = "Delivered"
     IN
     /\ clock' = IF stamps THEN clock + 1 ELSE clock
     /\ orders' = [orders EXCEPT ![r.oid] =
          [@ EXCEPT !.orderStatus =
                      IF r.newStatus # r.ldStatus THEN r.newStatus ELSE @,
                    !.deliveredAt = IF stamps THEN clock + 1 ELSE @]]
     /\ reqs' = [reqs EXCEPT ![s] = Done(r, 200)]
  /\ UNCHANGED <<products, carts, nAdmin, nFails>>

\* ------------------------------------------------------ updateOrderToPaid

AlreadyPaidNever(paymentStatus) == FALSE

\* orderController.js:176
AlreadyPaid(paymentStatus) == paymentStatus = "Paid"

\* orderController.js:159-181: Order.findById resolves, then the three checks
UpdateOrderToPaidFind(s, u, id) ==
  /\ Begin(s)
  /\ LET r == [Idle EXCEPT !.op = "updateOrderToPaid", !.user = u, !.oid = id]
     IN
     reqs' = [reqs EXCEPT ![s] =
       IF id > Len(orders) THEN Done(r, 404)
       ELSE IF ~OwnerOrAdmin(orders[id], u) THEN Done(r, 403)
       ELSE IF AlreadyPaid(orders[id].paymentStatus) THEN Done(r, 400)
       ELSE [r EXCEPT !.pc = "save", !.ldPay = orders[id].paymentStatus]]
  /\ UNCHANGED <<products, carts, orders, clock, nAdmin, nFails>>

\* orderController.js:183-191: order.save() writes paymentStatus and paidAt
UpdateOrderToPaidSave(s) ==
  /\ At(s, "updateOrderToPaid", "save")
  /\ clock' = clock + 1
  /\ orders' = [orders EXCEPT ![reqs[s].oid] =
       [@ EXCEPT !.paymentStatus = "Paid", !.paidAt = clock + 1]]
  /\ reqs' = [reqs EXCEPT ![s] = Done(reqs[s], 200)]
  /\ UNCHANGED <<products, carts, nAdmin, nFails>>

\* ------------------------------------------------------------ the requests

\* --------------------------------------------------------- getOrderStats

RECURSIVE SumTotalAmount(_)
\* $sum: '$totalAmount' over the documents of a group
SumTotalAmount(os) ==
  IF os = <<>> THEN 0 ELSE Head(os).totalAmount + SumTotalAmount(Tail(os))

TotalRevenueOfAll(os) == SumTotalAmount(os)

\* orderController.js:294-297 and 329: the Paid orders in one group, its total
\* the sum of their totalAmount; no Paid order, no group, and the response says 0
TotalRevenue(os) ==
  LET IsPaid(o) == o.paymentStatus = "Paid"
      matched == SelectSeq(os, IsPaid)
      groups == IF matched = <<>> THEN <<>>
                ELSE <<[total |-> SumTotalAmount(matched)]>>
  IN IF groups = <<>> THEN 0 ELSE groups[1].total

\* orderController.js:299-305: one group per value of the field that some order
\* has, with the number of orders that have it
GroupCounts(os, field) ==
  {[id |-> v, count |-> Cardinality({i \in 1..Len(os) : os[i][field] = v})] :
     v \in {os[i][field] : i \in 1..Len(os)}}

\* orderController.js:307-322: the Paid orders by year and month of createdAt;
\* the orders of a run are all of one month
MonthlyRevenue(os) ==
  LET IsPaid(o) == o.paymentStatus = "Paid"
      matched == SelectSeq(os, IsPaid)
  IN IF matched = <<>> THEN <<>>
     ELSE <<[revenue |-> SumTotalAmount(matched), orders |-> Len(matched)]>>

\* routes/orders.js:33 adminOnly, then orderController.js:293: countDocuments
\* resolves
GetOrderStatsCount(s, u) ==
  /\ Begin(s)
  /\ LET r == [Idle EXCEPT !.op = "getOrderStats", !.user = u]
     IN
     reqs' = [reqs EXCEPT ![s] =
       IF ~AdminOnly(u) THEN Done(r, 403)
       ELSE [r EXCEPT !.pc = "revenue", !.stats.totalOrders = Len(orders)]]
  /\ UNCHANGED <<products, carts, orders, clock, nAdmin, nFails>>

\* orderController.js:294-297: the first aggregate resolves
GetOrderStatsRevenue(s) ==
  /\ At(s, "getOrderStats", "revenue")
  /\ reqs' = [reqs EXCEPT ![s] =
       [@ EXCEPT !.pc = "byStatus", !.stats.totalRevenue = TotalRevenue(orders)]]
  /\ UNCHANGED <<products, carts, orders, clock, nAdmin, nFails>>

\* orderController.js:299-301
GetOrderStatsByStatus(s) ==
  /\ At(s, "getOrderStats", "byStatus")
  /\ reqs' = [reqs EXCEPT ![s] =
       [@ EXCEPT !.pc = "byPayment",
                 !.stats.ordersByStatus = GroupCounts(orders, "orderStatus")]]
  /\ UNCHANGED <<products, carts, orders, clock, nAdmin, nFails>>

\* orderController.js:303-305
GetOrderStatsByPayment(s) ==
  /\ At(s, "getOrderStats", "byPayment")
  /\ reqs' = [reqs EXCEPT ![s] =
       [@ EXCEPT !.pc = "monthly",
                 !.stats.ordersByPaymentStatus =
                    GroupCounts(orders, "paymentStatus")]]
  /\ UNCHANGED <<products, carts, orders, clock, nAdmin, nFails>>

\* orderController.js:307-333: the last aggregate resolves and the response goes
GetOrderStatsMonthly(s) ==
  /\ At(s, "getOrderStats", "monthly")
  /\ reqs' = [reqs EXCEPT ![s] =
       [Done(@, 200) EXCEPT !.stats.monthlyRevenue = MonthlyRevenue(orders)]]
  /\ UNCHANGED <<products, carts, orders, clock, nAdmin, nFails>>

\* orderController.js:86-88 and its like: an awaited operation throws, next(error)
Fail(s) ==
  /\ NoResponse
  /\ reqs[s].pc \notin {"idle", "done"}
  /\ nFails < MaxFails
  /\ nFails' = nFails + 1
  /\ reqs' = [reqs EXCEPT ![s] = Done(reqs[s], 500)]
  /\ UNCHANGED <<products, carts, orders, clock, nAdmin, nReq>>

\* The response has been read; the slot is free again.
Close(s) ==
  /\ reqs[s].pc = "done"
  /\ reqs' = [reqs EXCEPT ![s] = Idle]
  /\ UNCHANGED <<products, carts, orders, clock, nAdmin, nReq, nFails>>

Next ==
  \/ \E s \in Slots, u \in Shoppers, p \in Products, q \in 1..MaxQty :
       AddToCart(s, u, p, q)
  \/ \E s \in Slots, p \in Products : \E body \in UpdateBodies(p) :
       UpdateProduct(s, p, body)
  \/ \E s \in Slots, p \in Products : DeleteProduct(s, p)
  \/ \E s \in Slots, u \in Shoppers : CreateOrderFindCart(s, u)
  \/ \E s \in Slots : CreateOrderPopulate(s)
  \/ \E s \in Slots : CreateOrderCreate(s)
  \/ \E s \in Slots : CreateOrderStock(s)
  \/ \E s \in Slots : CreateOrderClear(s)
  \/ \E s \in Slots, u \in Principals, id \in OrderIds : GetOrder(s, u, id)
  \/ \E s \in Slots, u \in Principals, id \in OrderIds : CancelOrderFind(s, u, id)
  \/ \E s \in Slots : CancelOrderRestore(s)
  \/ \E s \in Slots : CancelOrderSave(s)
  \/ \E s \in Slots, u \in Principals, id \in OrderIds, ns \in OrderStatuses :
       UpdateOrderStatusFind(s, u, id, ns)
  \/ \E s \in Slots : UpdateOrderStatusSave(s)
  \/ \E s \in Slots, u \in Principals, id \in OrderIds : UpdateOrderToPaidFind(s, u, id)
  \/ \E s \in Slots : UpdateOrderToPaidSave(s)
  \/ \E s \in Slots : Fail(s)
  \/ \E s \in Slots : Close(s)

Spec == Init /\ [][Next]_vars

\* ------------------------------------------------------- the cart requests

\* The catalog the cart requests start from: every product well or barely stocked.
CartInit ==
  /\ \E n \in {MaxStock, MaxCartStock} :
       products = [p \in Products |->
                     [NoProduct EXCEPT !.exists = TRUE, !.isActive = TRUE,
                                        !.price = InitPrice(p), !.stock = n]]
  /\ carts = [u \in Shoppers |-> [exists |-> FALSE, items |-> <<>>]]
  /\ orders = <<>>
  /\ reqs = [s \in Slots |-> Idle]
  /\ clock = 0
  /\ nAdmin = 0
  /\ nReq = 0
  /\ nFails = 0

\* The requests of one shopper after another on their carts, the admin editing the
\* catalog in between.
CartNext ==
  \/ \E s \in Slots, u \in Shoppers, p \in Products, q \in 1..MaxCartQty :
       AddToCart(s, u, p, q)
  \/ \E s \in Slots, u \in Shoppers : GetCart(s, u)
  \/ \E s \in Slots, u \in Shoppers, p \in Products, q \in 1..MaxCartQty :
       UpdateCartItem(s, u, p, q)
  \/ \E s \in Slots, u \in Shoppers, p \in Products : RemoveFromCart(s, u, p)
  \/ \E s \in Slots, u \in Shoppers : ClearCart(s, u)
  \/ \E s \in Slots, u \in Shoppers, saves \in BOOLEAN : ValidateCart(s, u, saves)
  \/ \E s \in Slots, p \in Products : \E body \in UpdateBodies(p) :
       UpdateProduct(s, p, body)
  \/ \E s \in Slots, p \in Products : DeleteProduct(s, p)
  \/ \E s \in Slots : Close(s)

CartSpec == CartInit /\ [][CartNext]_vars

\* The shoppers' carts hold a line each: a state that their addToCart requests
\* reach, from which two orders can be made, paid and cancelled.
StatsInit ==
  /\ products = [p \in Products |->
                   [NoProduct EXCEPT !.exists = TRUE, !.isActive = TRUE,
                                      !.price = InitPrice(p), !.stock = MaxStock]]
  /\ \E f \in [Shoppers -> Products] :
       carts = [u \in Shoppers |->
                  [exists |-> TRUE,
                   items |-> <<[product |-> f[u], quantity |-> 1,
                                price |-> InitPrice(f[u])]>>]]
  /\ orders = <<>>
  /\ reqs = [s \in Slots |-> Idle]
  /\ clock = 0
  /\ nAdmin = 0
  /\ nReq = 0
  /\ nFails = 0

\* The order requests, with the admin's statistics requests among them.
StatsNext ==
  \/ \E s \in Slots, u \in Shoppers : CreateOrderFindCart(s, u)
  \/ \E s \in Slots : CreateOrderPopulate(s)
  \/ \E s \in Slots : CreateOrderCreate(s)
  \/ \E s \in Slots : CreateOrderStock(s)
  \/ \E s \in Slots : CreateOrderClear(s)
  \/ \E s \in Slots, u \in Principals, id \in OrderIds : CancelOrderFind(s, u, id)
  \/ \E s \in Slots : CancelOrderRestore(s)
  \/ \E s \in Slots : CancelOrderSave(s)
  \/ \E s \in Slots, u \in Principals, id \in OrderIds, ns \in OrderStatuses :
       UpdateOrderStatusFind(s, u, id, ns)
  \/ \E s \in Slots : UpdateOrderStatusSave(s)
  \/ \E s \in Slots, u \in Principals, id \in OrderIds : UpdateOrderToPaidFind(s, u, id)
  \/ \E s \in Slots : UpdateOrderToPaidSave(s)
  \/ \E s \in Slots, u \in Principals : GetOrderStatsCount(s, u)
  \/ \E s \in Slots : GetOrderStatsRevenue(s)
  \/ \E s \in Slots : GetOrderStatsByStatus(s)
  \/ \E s \in Slots : GetOrderStatsByPayment(s)
  \/ \E s \in Slots : GetOrderStatsMonthly(s)
  \/ \E s \in Slots : Close(s)

StatsSpec == StatsInit /\ [][StatsNext]_vars

\* The review requests of the users, the admin deleting a product in between.
ReviewNext ==
  \/ \E s \in Slots, u \in Principals, p \in Products, rating \in Stars :
       CreateProductReviewFind(s, u, p, rating)
  \/ \E s \in Slots : CreateProductReviewSave(s)
  \/ \E s \in Slots, p \in Products : DeleteProduct(s, p)
  \/ \E s \in Slots : Close(s)

ReviewSpec == Init /\ [][ReviewNext]_vars

\* ====================================================== the properties

\* Request r of handler op has answered.
Answered(r, op) == r.op = op /\ r.pc = "done"

\* A createOrder that has made at least its first write and not yet its last.
MidCheckout(r) == r.op = "createOrder" /\ r.pc \in {"stock", "clear"}

\* Every order belongs to another user: no user has checked out twice.
OneOrderPerUser ==
  \A i, j \in 1..Len(orders) : i # j => orders[i].user # orders[j].user

\* C1: with concurrent createOrder requests of different users against the same
\* product (and no admin edit, no storage failure), the stock of every product
\* is >= 0 in every reachable state.
C1_StockNeverNegative ==
  (nAdmin = 0 /\ nFails = 0 /\ OneOrderPerUser)
    => \A p \in Products : products[p].stock >= 0

\* C2: the three writes of createOrder are one atomic unit: a createOrder that
\* ends in a storage failure (500) leaves no order it made, no stock it
\* decremented and no cart it cleared.
C2_AtomicCheckout ==
  \A s \in Slots :
    (Answered(reqs[s], "createOrder") /\ reqs[s].status = 500)
      => /\ reqs[s].made = 0
         /\ reqs[s].eff = NoEffect
         /\ ~reqs[s].cleared
\* The line a createOrder's 400 is about, once populate has resolved.
FailedLine(r) == r.items[r.idx]

\* Request s takes the step of createOrder that validates the populated cart.
ValidatesCart(s) ==
  /\ reqs[s].op = "createOrder"
  /\ reqs[s].pc = "populate"
  /\ reqs'[s].pc # "populate"
  /\ reqs'[s].status # 500

\* The cart line cannot be ordered from the catalog as it is.
Unorderable(line) ==
  \/ ~products[line.product].exists
  \/ ~products[line.product].isActive
  \/ products[line.product].stock < line.quantity

\* C3 as stated: a createOrder rejected for one of its lines answers 400 and its
\* message names that line's product.
C3_RejectionNamesProduct ==
  \A s \in Slots :
    (Answered(reqs[s], "createOrder") /\ reqs[s].status = 400 /\ reqs[s].idx # 0)
      => reqs[s].named = FailedLine(reqs[s]).product

\* C3 as amended: when createOrder validates a cart with a line whose product is
\* missing, inactive or short of stock, it answers 400, the message naming the
\* first such line's product if the product exists and 'Unknown' if it is
\* missing; no order is created, no stock changes and the cart is unchanged.  A
\* cart with no such line goes on to Order.create.
C3_AllOrNothing ==
  [][\A s \in Slots :
       ValidatesCart(s) =>
         LET lines == reqs[s].items
             bad == {i \in 1..Len(lines) : Unorderable(lines[i])}
         IN IF bad = {}
            THEN reqs'[s].pc = "create"
            ELSE LET first == CHOOSE i \in bad : \A j \in bad : i <= j
                 IN /\ reqs'[s].pc = "done"
                    /\ reqs'[s].status = 400
                    /\ reqs'[s].named =
                         IF products[lines[first].product].exists
                         THEN lines[first].product ELSE "Unknown"
                    /\ reqs'[s].made = 0
                    /\ reqs'[s].eff = NoEffect
                    /\ ~reqs'[s].cleared
                    /\ UNCHANGED <<orders, products, carts>>
    ]_vars

\* C3's case: a two-line cart whose first line passed and whose second line was
\* rejected.
C3_Witness ==
  \E s \in Slots :
    /\ Answered(reqs[s], "createOrder")
    /\ reqs[s].status = 400
    /\ reqs[s].idx = 2
    /\ carts[reqs[s].user].items = reqs[s].items

\* C4: once an order is Delivered or Cancelled, no step changes its orderStatus.
C4_TerminalStays ==
  [][\A i \in 1..Len(orders) :
       orders[i].orderStatus \in {"Delivered", "Cancelled"}
         => orders'[i].orderStatus = orders[i].orderStatus
    ]_vars

\* C5: with a single order ever created, by a createOrder that ran to its end,
\* no storage failure, no admin edit of the catalog and nothing else in flight,
\* a successful cancelOrder leaves every product's stock at what it was before
\* the createOrder that made the order (the catalog's first stock).
C5_CancelRestoresStock ==
  \A s \in Slots :
    ( /\ Answered(reqs[s], "cancelOrder")
      /\ reqs[s].status = 200
      /\ nAdmin = 0
      /\ nFails = 0
      /\ Len(orders) = 1
      /\ \A t \in Slots : t # s => reqs[t].pc = "idle" )
      => \A p \in Products : products[p].stock = MaxStock

\* C6: a successful createOrder has taken from every product exactly the
\* quantity its order holds of it: the ordered quantity from each product of
\* the order, nothing from any other product.
C6_StockDecrement ==
  \A s \in Slots :
    (Answered(reqs[s], "createOrder") /\ reqs[s].status = 201)
      => \A p \in Products :
           products[p].exists
             => reqs[s].eff[p] = -QtyOf(orders[reqs[s].made].items, p)

\* C6's case: a checkout of one product has answered 201, having changed that
\* product's stock and not the other's.
C6_Witness ==
  \E s \in Slots, p, q \in Products :
    /\ Answered(reqs[s], "createOrder")
    /\ reqs[s].status = 201
    /\ products[p].exists /\ products[q].exists
    /\ reqs[s].eff[p] < 0
    /\ reqs[s].eff[q] = 0

\* C7: every order createOrder makes has itemsPrice the sum over its lines of
\* unit price times quantity, shippingPrice 0 above 100 and 10 otherwise (100
\* itself pays), taxPrice a tenth of itemsPrice, and totalAmount their sum;
\* 60 gives 10, 6 and 76.
C7_Pricing ==
  /\ \A i \in 1..Len(orders) :
       LET o == orders[i]
       IN /\ o.itemsPrice = SumItems(o.items)
          /\ o.shippingPrice = (IF o.itemsPrice > 100 THEN 0 ELSE 10)
          /\ 10 * o.taxPrice = o.itemsPrice
          /\ o.totalAmount = o.itemsPrice + o.shippingPrice + o.taxPrice
  /\ \A s \in Slots :
       (reqs[s].op = "createOrder" /\ reqs[s].pc = "create")
         => LET o == NewOrder(reqs[s].user, reqs[s].items)
            IN o.itemsPrice = 60
                 => o.shippingPrice = 10 /\ o.taxPrice = 6 /\ o.totalAmount = 76

\* C7's case: an order of exactly 100, which pays the flat shipping.
C7_Witness ==
  \E i \in 1..Len(orders) :
    orders[i].itemsPrice = 100 /\ orders[i].totalAmount = 120

\* C8: while a createOrder is between its first and its last write, no other
\* createOrder reads the cart or the catalog and no admin edit writes a product.
C8_IsolatedCheckout ==
  [][\A s, t \in Slots :
       (s # t /\ MidCheckout(reqs[s]))
         => /\ ~(reqs[t].pc = "idle" /\ reqs'[t].op = "createOrder")
            /\ ~(reqs[t].op = "createOrder" /\ reqs[t].pc = "populate"
                   /\ reqs'[t].pc # "populate" /\ reqs'[t].status # 500)
            /\ ~(reqs[t].pc = "idle" /\ reqs'[t].op = "updateProduct"
                   /\ reqs'[t].status = 200)
    ]_vars

\* C9: cancelOrder by the owner of an order that is Delivered or Cancelled
\* answers 400 and changes neither the order nor any product's stock.
C9_TerminalRejectsCancel ==
  [][\A s \in Slots :
       (reqs[s].pc = "idle" /\ reqs'[s].op = "cancelOrder")
         => LET id == reqs'[s].oid
            IN ( /\ id <= Len(orders)
                 /\ orders[id].user = reqs'[s].user
                 /\ orders[id].orderStatus \in {"Delivered", "Cancelled"} )
                 => /\ reqs'[s].pc = "done"
                    /\ reqs'[s].status = 400
                    /\ UNCHANGED <<orders, products>>
    ]_vars

\* C9's case: the owner's cancelOrder of a Delivered order was answered 400.
C9_Witness ==
  \E s \in Slots :
    /\ Answered(reqs[s], "cancelOrder")
    /\ reqs[s].status = 400
    /\ orders[reqs[s].oid].orderStatus = "Delivered"

\* C10: updateOrderToPaid by the owner or an admin on an order that is not
\* Paid sets paymentStatus to Paid and stamps paidAt, changing nothing else of
\* the order; on an order that is already Paid it answers 400 and changes no
\* order.
C10_PaidTwice ==
  [][\A s \in Slots :
       /\ (reqs[s].pc = "idle" /\ reqs'[s].op = "updateOrderToPaid")
            => LET id == reqs'[s].oid
                   u == reqs'[s].user
               IN (id <= Len(orders) /\ (orders[id].user = u \/ u = Admin))
                    => IF orders[id].paymentStatus = "Paid"
                       THEN /\ reqs'[s].pc = "done"
                            /\ reqs'[s].status = 400
                            /\ UNCHANGED orders
                       ELSE /\ reqs'[s].pc = "save"
                            /\ UNCHANGED orders
       /\ (reqs[s].op = "updateOrderToPaid" /\ reqs[s].pc = "save"
             /\ reqs'[s].status = 200)
            => LET id == reqs[s].oid
               IN /\ orders'[id].paymentStatus = "Paid"
                  /\ orders'[id].paidAt > clock
                  /\ orders' = [orders EXCEPT
                       ![id].paymentStatus = "Paid",
                       ![id].paidAt = orders'[id].paidAt]
    ]_vars

\* C10's case: a second updateOrderToPaid on a paid, stamped order was answered
\* 400.
C10_Witness ==
  \E s \in Slots :
    /\ Answered(reqs[s], "updateOrderToPaid")
    /\ reqs[s].status = 400
    /\ orders[reqs[s].oid].paymentStatus = "Paid"
    /\ orders[reqs[s].oid].paidAt # 0
\* Request s takes the last step of handler op, answering 200 for order i.
Succeeds(s, op, i) ==
  /\ reqs[s].op = op
  /\ reqs[s].pc = "save"
  /\ reqs[s].oid = i
  /\ reqs'[s].pc = "done"
  /\ reqs'[s].status = 200

\* C11: once an order's paymentStatus is Paid, a step that changes it is the
\* save of a cancelOrder that answers 200, and it changes it to Refunded; it
\* never goes back to Pending.
C11_PaidOneWay ==
  [][\A i \in 1..Len(orders) :
       (orders[i].paymentStatus = "Paid" /\ orders'[i].paymentStatus # "Paid")
         => /\ orders'[i].paymentStatus = "Refunded"
            /\ \E s \in Slots : Succeeds(s, "cancelOrder", i)
    ]_vars

\* C11's case: an order that was paid (it keeps its paidAt) and then cancelled.
C11_Witness ==
  \E i \in 1..Len(orders) :
    /\ orders[i].paymentStatus = "Refunded"
    /\ orders[i].paidAt # 0
    /\ orders[i].orderStatus = "Cancelled"

\* C12: the only changes of an order's paymentStatus are Pending to Paid and
\* anything to Refunded; in particular Refunded never becomes Paid.
C12_PaymentTransitions ==
  [][\A i \in 1..Len(orders) :
       orders'[i].paymentStatus # orders[i].paymentStatus
         => \/ orders[i].paymentStatus = "Pending" /\ orders'[i].paymentStatus = "Paid"
            \/ orders'[i].paymentStatus = "Refunded"
    ]_vars
\* Request s arrives for handler op.
Arrives(s, op) == reqs[s].pc = "idle" /\ reqs'[s].op = op

\* C13: cancelOrder of an existing order by anyone but its owner, an admin
\* included, answers 403 and changes no order and no product's stock.
C13_CancelOwnerOnly ==
  [][\A s \in Slots :
       ( /\ Arrives(s, "cancelOrder")
         /\ reqs'[s].oid <= Len(orders)
         /\ orders[reqs'[s].oid].user # reqs'[s].user )
         => /\ reqs'[s].pc = "done"
            /\ reqs'[s].status = 403
            /\ UNCHANGED <<orders, products>>
    ]_vars

\* C13's case: the admin's cancelOrder of a shopper's order was answered 403.
C13_Witness ==
  \E s \in Slots :
    /\ Answered(reqs[s], "cancelOrder")
    /\ reqs[s].status = 403
    /\ reqs[s].user = Admin
    /\ orders[reqs[s].oid].orderStatus = "Processing"

\* C14: updateOrderToPaid of an existing order by a caller who is neither its
\* owner nor an admin answers 403 and changes no order, and an order's
\* paymentStatus or paidAt is set to paid only by a request of its owner or an
\* admin; getOrder answers 200 only to the order's owner or an admin, 403 to
\* anyone else.
C14_OwnerOrAdminOnly ==
  [][/\ \A s \in Slots :
          ( /\ Arrives(s, "updateOrderToPaid") \/ Arrives(s, "getOrder")
            /\ reqs'[s].oid <= Len(orders) )
            => LET o == orders[reqs'[s].oid]
                   u == reqs'[s].user
               IN IF o.user = u \/ u = Admin
                  THEN reqs'[s].status # 403
                       /\ (reqs'[s].op = "getOrder" => reqs'[s].status = 200)
                  ELSE /\ reqs'[s].pc = "done"
                       /\ reqs'[s].status = 403
                       /\ UNCHANGED orders
     /\ \A i \in 1..Len(orders) :
          ( \/ orders'[i].paidAt # orders[i].paidAt
            \/ orders'[i].paymentStatus = "Paid" /\ orders[i].paymentStatus # "Paid" )
            => \E s \in Slots :
                 /\ Succeeds(s, "updateOrderToPaid", i)
                 /\ (reqs[s].user = orders[i].user \/ reqs[s].user = Admin)
    ]_vars

\* C14's case: another shopper's updateOrderToPaid was answered 403 and the
\* order is still unpaid.
C14_Witness ==
  \E s \in Slots :
    /\ Answered(reqs[s], "updateOrderToPaid")
    /\ reqs[s].status = 403
    /\ reqs[s].user \in Shoppers
    /\ orders[reqs[s].oid].paymentStatus = "Pending"
    /\ orders[reqs[s].oid].paidAt = 0
\* No two lines of the cart are of the same product.
OneLinePerProduct(items) ==
  \A i, j \in 1..Len(items) : i # j => items[i].product # items[j].product

\* C15: after every request on the carts (addToCart, updateCartItem,
\* removeFromCart, clearCart, getCart, validateCart) every cart has at most one
\* line per product, and a successful addToCart of a product the cart already
\* holds adds the quantity to that line and leaves the other lines alone (2 then
\* 3 gives one line of 5).
C15_OneLinePerProduct ==
  [][/\ \A u \in Shoppers : OneLinePerProduct(carts'[u].items)
     /\ \A s \in Slots :
          (Arrives(s, "addToCart") /\ reqs'[s].status = 200)
            => LET u == reqs'[s].user
                   old == carts[u].items
                   held == {i \in 1..Len(old) : old[i].product = reqs'[s].named}
               IN \A i \in held :
                    /\ carts'[u].items =
                         [old EXCEPT ![i].quantity = @ + reqs'[s].quantity]
                    /\ (Len(old) = 1 /\ old[i].quantity = 2 /\ reqs'[s].quantity = 3)
                         => /\ Len(carts'[u].items) = 1
                            /\ carts'[u].items[1].quantity = 5
    ]_vars

\* C15's case: 3 more of a product with stock 10 were added to a cart that held
\* 2 of it, and the cart has the one line of 5.
C15_Witness ==
  \E s \in Slots :
    /\ Answered(reqs[s], "addToCart")
    /\ reqs[s].status = 200
    /\ reqs[s].quantity = 3
    /\ products[reqs[s].named].stock = 10
    /\ Len(carts[reqs[s].user].items) = 1
    /\ carts[reqs[s].user].items[1].quantity = 5

\* C16: addToCart answers 404 for a missing product, 400 for an inactive one,
\* 400 when the stock is less than the requested quantity and 400 when the
\* cart's line of the product plus the requested quantity is more than the
\* stock, each time leaving every cart as it was; when it answers 200 the
\* product's line has grown by the requested quantity and is at most the stock.
C16_AddRejections ==
  [][\A s \in Slots :
       Arrives(s, "addToCart")
         => LET u == reqs'[s].user
                p == reqs'[s].named
                q == reqs'[s].quantity
                inCart == QtyOf(carts[u].items, p)
            IN /\ ~products[p].exists
                    => reqs'[s].status = 404 /\ UNCHANGED carts
               /\ (products[p].exists /\ ~products[p].isActive)
                    => reqs'[s].status = 400 /\ UNCHANGED carts
               /\ (products[p].exists /\ products[p].stock < q)
                    => reqs'[s].status = 400 /\ UNCHANGED carts
               /\ (products[p].exists /\ inCart > 0 /\ inCart + q > products[p].stock)
                    => reqs'[s].status = 400 /\ UNCHANGED carts
               /\ reqs'[s].status = 200
                    => /\ QtyOf(carts'[u].items, p) = inCart + q
                       /\ QtyOf(carts'[u].items, p) <= products'[p].stock
    ]_vars

\* C16's case: the product is active and has the requested quantity in stock,
\* but not together with what the cart already holds: 400.
C16_Witness ==
  \E s \in Slots :
    LET p == reqs[s].named
        inCart == QtyOf(carts[reqs[s].user].items, p)
    IN /\ Answered(reqs[s], "addToCart")
       /\ reqs[s].status = 400
       /\ products[p].exists /\ products[p].isActive
       /\ reqs[s].quantity <= products[p].stock
       /\ inCart > 0
       /\ inCart + reqs[s].quantity > products[p].stock
\* C17: createOrder for a user with no cart, or with a cart of zero lines,
\* answers 400 at once, creating no order and changing no stock (and no cart).
C17_EmptyCart ==
  [][\A s \in Slots :
       ( /\ Arrives(s, "createOrder")
         /\ \/ ~carts[reqs'[s].user].exists
            \/ Len(carts[reqs'[s].user].items) = 0 )
         => /\ reqs'[s].pc = "done"
            /\ reqs'[s].status = 400
            /\ reqs'[s].made = 0
            /\ reqs'[s].eff = NoEffect
            /\ UNCHANGED <<orders, products, carts>>
    ]_vars

\* C17's case: createOrder on a cart that exists and has zero lines got its 400.
C17_Witness ==
  \E s \in Slots :
    /\ Answered(reqs[s], "createOrder")
    /\ reqs[s].status = 400
    /\ reqs[s].idx = 0
    /\ carts[reqs[s].user].exists
    /\ carts[reqs[s].user].items = <<>>

\* What createOrder fixes of an order: its user, its lines and its four amounts.
Snapshot(o) ==
  <<o.user, o.items, o.itemsPrice, o.shippingPrice, o.taxPrice, o.totalAmount>>

\* C18: no step changes the lines or the amounts of an order that exists,
\* whatever the later requests on orders, carts and the catalog.
C18_SnapshotFixed ==
  [][/\ Len(orders') >= Len(orders)
     /\ \A i \in 1..Len(orders) : Snapshot(orders'[i]) = Snapshot(orders[i])
    ]_vars

\* C18's case: the order's status has moved and the catalog's price of its
\* product is no longer the price of its line.
C18_Witness ==
  \E i \in 1..Len(orders) :
    /\ orders[i].orderStatus # "Processing" \/ orders[i].paymentStatus # "Pending"
    /\ products[orders[i].items[1].product].exists
    /\ products[orders[i].items[1].product].price # orders[i].items[1].price

\* C19: the lines createOrder carries from its validation to Order.create have
\* the catalog's price at that moment, whatever price the cart line captured,
\* and the order is made of those lines, its itemsPrice their sum.
C19_CurrentPrice ==
  [][\A s \in Slots :
       /\ (ValidatesCart(s) /\ reqs'[s].pc = "create")
            => /\ Len(reqs'[s].items) = Len(reqs[s].items)
               /\ \A i \in 1..Len(reqs[s].items) :
                    /\ reqs'[s].items[i].product = reqs[s].items[i].product
                    /\ reqs'[s].items[i].quantity = reqs[s].items[i].quantity
                    /\ reqs'[s].items[i].price =
                         products[reqs[s].items[i].product].price
       /\ (reqs[s].op = "createOrder" /\ reqs[s].pc = "create" /\ reqs'[s].pc = "stock")
            => /\ Len(orders') = Len(orders) + 1
               /\ orders'[Len(orders')].items = reqs[s].items
               /\ orders'[Len(orders')].itemsPrice = SumItems(reqs[s].items)
    ]_vars

\* C19's case: an order just made from a cart line whose captured price is not
\* the order line's price (the cart is not yet cleared).
C19_Witness ==
  \E s \in Slots :
    /\ MidCheckout(reqs[s])
    /\ carts[reqs[s].user].items # <<>>
    /\ carts[reqs[s].user].items[1].product = orders[reqs[s].made].items[1].product
    /\ carts[reqs[s].user].items[1].price # orders[reqs[s].made].items[1].price
    /\ orders[reqs[s].made].itemsPrice
         = orders[reqs[s].made].items[1].price * orders[reqs[s].made].items[1].quantity

\* C20: when createOrder answers 201 the user's cart exists and has zero lines,
\* and an addToCart that finds a cart keeps it and puts its line in it.
C20_CartKept ==
  [][\A s \in Slots :
       /\ (reqs[s].op = "createOrder" /\ reqs'[s].pc = "done" /\ reqs'[s].status = 201)
            => /\ carts'[reqs[s].user].exists
               /\ carts'[reqs[s].user].items = <<>>
       /\ (Arrives(s, "addToCart") /\ reqs'[s].status = 200
             /\ carts[reqs'[s].user].exists)
            => /\ carts'[reqs'[s].user].exists
               /\ Len(carts'[reqs'[s].user].items) >= Len(carts[reqs'[s].user].items)
               /\ QtyOf(carts'[reqs'[s].user].items, reqs'[s].named)
                    = QtyOf(carts[reqs'[s].user].items, reqs'[s].named)
                      + reqs'[s].quantity
    ]_vars

\* C20's case: a shopper whose order emptied the cart has added to it again.
C20_Witness ==
  \E s \in Slots :
    /\ Answered(reqs[s], "addToCart")
    /\ reqs[s].status = 200
    /\ \E i \in 1..Len(orders) :
         orders[i].user = reqs[s].user /\ orders[i].totalAmount > 0
    /\ \A t \in Slots : reqs[t].op # "createOrder"
    /\ Len(carts[reqs[s].user].items) = 1
    /\ carts[reqs[s].user].items[1].quantity = reqs[s].quantity
\* Request s takes the step of createOrder in which Order.create resolves.
CreatesOrder(s) ==
  reqs[s].op = "createOrder" /\ reqs[s].pc = "create" /\ reqs'[s].pc = "stock"

\* C21: the order that createOrder adds to the orders is Pending and Processing
\* (and not yet stamped).
C21_StartsPendingProcessing ==
  [][\A s \in Slots :
       CreatesOrder(s)
         => /\ Len(orders') = Len(orders) + 1
            /\ reqs'[s].made = Len(orders')
            /\ orders'[Len(orders')].paymentStatus = "Pending"
            /\ orders'[Len(orders')].orderStatus = "Processing"
            /\ orders'[Len(orders')].user = reqs[s].user
    ]_vars

\* C21's case: a createOrder has just made its order, which nothing has touched.
C21_Witness ==
  \E s \in Slots :
    /\ MidCheckout(reqs[s])
    /\ reqs[s].idx = 1
    /\ orders[reqs[s].made].paymentStatus = "Pending"
    /\ orders[reqs[s].made].orderStatus = "Processing"

\* Every request there is, of the orders and of the carts.
ShopNext == Next \/ CartNext

ShopSpec == Init /\ [][ShopNext]_vars
\* The handlers of carts and orders that are not to raise any stock.
StockKeepers ==
  {"getCart", "addToCart", "updateCartItem", "removeFromCart", "clearCart",
   "validateCart", "updateOrderToPaid", "updateOrderStatus"}

\* C22: a step that raises a product's stock is one iteration of the restore
\* loop of a cancelOrder that passed its checks, raising the stock by its
\* line's quantity (or is an admin's updateProduct); every step of getCart,
\* addToCart, updateCartItem, removeFromCart, clearCart, validateCart,
\* updateOrderToPaid and updateOrderStatus, a status update to Cancelled
\* included, leaves the whole catalog as it was.
C22_OnlyCancelRestocks ==
  [][/\ \A p \in Products :
          (products[p].exists /\ products'[p].exists
             /\ products'[p].stock > products[p].stock)
            => \/ \E s \in Slots : Arrives(s, "updateProduct")
               \/ \E s \in Slots :
                    /\ reqs[s].op = "cancelOrder"
                    /\ reqs[s].pc = "restore"
                    /\ reqs[s].items[reqs[s].idx].product = p
                    /\ products'[p].stock
                         = products[p].stock + reqs[s].items[reqs[s].idx].quantity
     /\ \A s \in Slots :
          (reqs'[s] # reqs[s] /\ reqs'[s].op \in StockKeepers)
            => UNCHANGED products
    ]_vars

\* C22's case: an admin's updateOrderStatus has cancelled an order (its payment
\* is not refunded) and the stock the order took has not come back.
C22_Witness ==
  \E s \in Slots :
    /\ Answered(reqs[s], "updateOrderStatus")
    /\ reqs[s].status = 200
    /\ orders[reqs[s].oid].orderStatus = "Cancelled"
    /\ orders[reqs[s].oid].paymentStatus = "Pending"
    /\ nAdmin = 0
    /\ \E p \in Products : products[p].stock < MaxStock
RECURSIVE OpenQty(_, _)
\* The quantity of product p in the orders of os that are not Cancelled.
OpenQty(os, p) ==
  IF os = <<>> THEN 0
  ELSE (IF Head(os).orderStatus # "Cancelled" THEN QtyOf(Head(os).items, p) ELSE 0)
       + OpenQty(Tail(os), p)

\* No request is in progress.
Quiet == \A s \in Slots : reqs[s].pc = "idle"

\* C23: with no admin edit of the catalog and no storage failure, whenever no
\* request is in progress, every product's stock plus its quantity in the
\* orders that are not Cancelled is its first stock.
C23_StockConservation ==
  (Quiet /\ nAdmin = 0 /\ nFails = 0)
    => \A p \in Products : products[p].stock + OpenQty(orders, p) = MaxStock

\* A cancelOrder has cancelled the order: it is Cancelled and Refunded.
CancelledByOwner(o) == o.orderStatus = "Cancelled" /\ o.paymentStatus = "Refunded"

\* C24: of the cancelOrder requests for one order only one gets to write: no
\* cancelOrder raises a stock for, or saves, an order that a cancelOrder has
\* already cancelled.
C24_CancelOnce ==
  [][\A s \in Slots :
       ( /\ reqs[s].op = "cancelOrder"
         /\ reqs[s].pc \in {"restore", "save"}
         /\ reqs'[s] # reqs[s]
         /\ reqs'[s].status # 500 )
         => ~CancelledByOwner(orders[reqs[s].oid])
    ]_vars

\* C25: no createOrder makes an order from cart lines from which another
\* createOrder of the same user, still in progress, has made one already.
C25_NoDoubleSubmit ==
  [][\A s, t \in Slots :
       (s # t /\ CreatesOrder(s))
         => ~( /\ MidCheckout(reqs[t])
               /\ reqs[t].user = reqs[s].user
               /\ reqs[t].items = reqs[s].items )
    ]_vars

\* C26: an updateOrderStatus that loaded the order before it was cancelled and
\* sets it to Shipped or Delivered does not save over an order that a
\* cancelOrder has cancelled in between (its stock is back in the catalog).
C26_NoShipAfterCancel ==
  [][\A s \in Slots, i \in 1..Len(orders) :
       ( /\ Succeeds(s, "updateOrderStatus", i)
         /\ reqs[s].ldStatus # "Cancelled"
         /\ reqs[s].newStatus \in {"Shipped", "Delivered"} )
         => ~CancelledByOwner(orders[i])
    ]_vars

\* C27: a Shipped order becomes Delivered or Cancelled or stays Shipped, and no
\* order that has left Processing returns to it.
C27_NeverBackward ==
  [][\A i \in 1..Len(orders) :
       /\ orders[i].orderStatus = "Shipped"
            => orders'[i].orderStatus \in {"Shipped", "Delivered", "Cancelled"}
       /\ orders[i].orderStatus # "Processing"
            => orders'[i].orderStatus # "Processing"
    ]_vars

\* C28: in every state an order is Cancelled exactly when it is Refunded.
C28_CancelledIffRefunded ==
  \A i \in 1..Len(orders) :
    orders[i].orderStatus = "Cancelled" <=> orders[i].paymentStatus = "Refunded"
\* C30: when validateCart answers 200, every line of the cart it returns is of
\* a product that exists and is active, has at most the product's stock as its
\* quantity and the catalog's price as its price; the lines are those of the
\* stored cart whose product is there and active; the validation errors are as
\* many as the stored lines whose product is missing, inactive or short of
\* stock, and isValid says that there are none.
C30_ValidateCartResult ==
  [][\A s \in Slots :
       (Arrives(s, "validateCart") /\ reqs'[s].status = 200)
         => LET old == carts[reqs'[s].user].items
                got == reqs'[s].items
                bad == {i \in 1..Len(old) : Unorderable(old[i])}
                gone == {i \in 1..Len(old) :
                           \/ ~products[old[i].product].exists
                           \/ ~products[old[i].product].isActive}
            IN /\ \A i \in 1..Len(got) :
                    /\ products[got[i].product].exists
                    /\ products[got[i].product].isActive
                    /\ got[i].quantity <= products[got[i].product].stock
                    /\ got[i].price = products[got[i].product].price
               /\ Len(got) = Len(old) - Cardinality(gone)
               /\ \A p \in Products :
                    QtyOf(got, p) = IF \E i \in gone : old[i].product = p
                                    THEN 0
                                    ELSE IF QtyOf(old, p) > products[p].stock
                                    THEN products[p].stock
                                    ELSE QtyOf(old, p)
               /\ reqs'[s].idx = Cardinality(bad)
               /\ reqs'[s].isValid <=> (bad = {})
    ]_vars

\* C30's case: validateCart found one line short of stock, clamped it to the
\* stock that is left and reported the one error.
C30_Witness ==
  \E s \in Slots :
    /\ Answered(reqs[s], "validateCart")
    /\ reqs[s].status = 200
    /\ reqs[s].idx = 1
    /\ ~reqs[s].isValid
    /\ Len(reqs[s].items) = 1
    /\ reqs[s].items[1].quantity = 1
    /\ products[reqs[s].items[1].product].stock = 1

\* C31: a validateCart that answers 200 leaves the stored cart as it was when the
\* cart it returns is the stored one, and otherwise (a line dropped, a quantity
\* clamped or a price refreshed) stores the cart it returns.
C31_ValidateCartStores ==
  [][\A s \in Slots :
       (Arrives(s, "validateCart") /\ reqs'[s].status = 200)
         => LET u == reqs'[s].user
            IN IF reqs'[s].items = carts[u].items
               THEN carts' = carts
               ELSE carts'[u].items = reqs'[s].items
    ]_vars

\* C32: getCart answers with the caller's cart: a caller without one gets an
\* empty cart stored; otherwise exactly the lines whose product is missing or
\* inactive are removed, the other lines stay as they are (product, quantity,
\* captured price) and in their order, and a cart with no such line is stored
\* as it was.
C32_GetCartPrunes ==
  [][\A s \in Slots :
       Arrives(s, "getCart")
         => LET u == reqs'[s].user
                Live(line) == /\ products[line.product].exists
                              /\ products[line.product].isActive
            IN /\ reqs'[s].status = 200
               /\ carts'[u].exists
               /\ carts'[u].items = SelectSeq(carts[u].items, Live)
               /\ reqs'[s].items = carts'[u].items
               /\ ~carts[u].exists => carts'[u].items = <<>>
               /\ (carts[u].exists /\ reqs'[s].idx = 0) => carts'[u] = carts[u]
               /\ \A v \in Shoppers \ {u} : carts'[v] = carts[v]
    ]_vars

\* A getCart has removed one line and kept another.
C32_Witness ==
  \E s \in Slots :
    /\ Answered(reqs[s], "getCart")
    /\ reqs[s].idx = 1
    /\ Len(carts[reqs[s].user].items) = 1

\* C33: updateCartItem answers 404 for a missing product, 400 for an inactive
\* one, 400 for a quantity above the product's stock, 404 when the caller has no
\* cart and 404 when the cart has no line of the product, each with the carts
\* unchanged; otherwise it answers 200, the line's quantity is the target and
\* every other line and cart is unchanged.
C33_UpdateCartItem ==
  [][\A s \in Slots :
       Arrives(s, "updateCartItem")
         => LET u == reqs'[s].user
                p == reqs'[s].named
                q == reqs'[s].quantity
                product == products[p]
                Has == carts[u].exists
                       /\ \E i \in 1..Len(carts[u].items) :
                            carts[u].items[i].product = p
            IN IF ~product.exists
               THEN reqs'[s].status = 404 /\ carts' = carts
               ELSE IF ~product.isActive \/ q > product.stock
               THEN reqs'[s].status = 400 /\ carts' = carts
               ELSE IF ~Has
               THEN reqs'[s].status = 404 /\ carts' = carts
               ELSE /\ reqs'[s].status = 200
                    /\ Len(carts'[u].items) = Len(carts[u].items)
                    /\ \A i \in 1..Len(carts[u].items) :
                         IF carts[u].items[i].product = p
                         THEN carts'[u].items[i] =
                                [carts[u].items[i] EXCEPT !.quantity = q]
                         ELSE carts'[u].items[i] = carts[u].items[i]
                    /\ \A v \in Shoppers \ {u} : carts'[v] = carts[v]
    ]_vars

\* Request s is the only request in progress.
Alone(s) == \A t \in Slots \ {s} : reqs[t].pc = "idle"

\* C34: carts reserve no stock. An addToCart is accepted exactly when the product
\* is there, active and its stock covers the quantity asked together with the
\* caller's own line, whatever the other carts hold; and a createOrder that
\* validates its cart with no other request in progress goes on to make its
\* order exactly when the stock left covers every line, and otherwise answers
\* 400 and changes no product, no order and no cart.
C34_NoReservation ==
  [][\A s \in Slots :
       /\ Arrives(s, "addToCart")
            => LET u == reqs'[s].user
                   p == reqs'[s].named
                   q == reqs'[s].quantity
               IN (reqs'[s].status = 200)
                    <=> /\ products[p].exists
                        /\ products[p].isActive
                        /\ QtyOf(carts[u].items, p) + q <= products[p].stock
       /\ (ValidatesCart(s) /\ Alone(s))
            => IF \E i \in 1..Len(reqs[s].items) : Unorderable(reqs[s].items[i])
               THEN /\ reqs'[s].pc = "done"
                    /\ reqs'[s].status = 400
                    /\ UNCHANGED <<products, orders, carts>>
               ELSE reqs'[s].pc = "create"
    ]_vars

\* Two users held lines of one product for more than its stock; one has ordered
\* and the other's createOrder is refused for the stock that is left.
C34_Witness ==
  \E s \in Slots, i \in 1..Len(orders) :
    /\ Answered(reqs[s], "createOrder")
    /\ reqs[s].status = 400
    /\ reqs[s].idx > 0
    /\ Alone(s)
    /\ carts[orders[i].user].items = <<>>
    /\ nAdmin = 0
    /\ orders[i].user # reqs[s].user
    /\ orders[i].orderStatus # "Cancelled"
    /\ LET line == FailedLine(reqs[s])
       IN /\ QtyOf(orders[i].items, line.product) > 0
          /\ products[line.product].stock < line.quantity
          /\ products[line.product].stock >= 0
          /\ carts[reqs[s].user].items # <<>>

\* C35: an updateOrderStatus that sets an order to Delivered stamps its
\* deliveredAt; a deliveredAt that is set is never changed again; and a step
\* sets a deliveredAt only on an order it leaves Delivered.
C35_DeliveredAtOnce ==
  [][\A i \in 1..Len(orders) :
       /\ (\E s \in Slots : /\ Succeeds(s, "updateOrderStatus", i)
                            /\ reqs[s].newStatus = "Delivered")
            => orders'[i].deliveredAt # 0
       /\ orders[i].deliveredAt # 0
            => orders'[i].deliveredAt = orders[i].deliveredAt
       /\ orders'[i].deliveredAt # orders[i].deliveredAt
            => orders'[i].orderStatus = "Delivered"
    ]_vars

\* C36: a step that changes an order's orderStatus is the save of an
\* updateOrderStatus sent by an admin or the save of a cancelOrder sent by the
\* order's owner, each answering 200; and an updateOrderStatus sent by anyone
\* but an admin answers 403 and changes no order.
C36_StatusChangers ==
  [][/\ \A i \in 1..Len(orders) :
          orders'[i].orderStatus # orders[i].orderStatus
            => \E s \in Slots :
                 \/ /\ Succeeds(s, "updateOrderStatus", i)
                    /\ IsAdmin(reqs[s].user)
                 \/ /\ Succeeds(s, "cancelOrder", i)
                    /\ reqs[s].user = orders[i].user
                    /\ orders'[i].orderStatus = "Cancelled"
     /\ \A s \in Slots :
          (Arrives(s, "updateOrderStatus") /\ ~IsAdmin(reqs'[s].user))
            => /\ reqs'[s].pc = "done"
               /\ reqs'[s].status = 403
               /\ UNCHANGED orders
    ]_vars

\* A user has asked for a status change of their own order and got 403.
C36_Witness ==
  \E s \in Slots :
    /\ Answered(reqs[s], "updateOrderStatus")
    /\ reqs[s].status = 403
    /\ reqs[s].oid <= Len(orders)
    /\ orders[reqs[s].oid].user = reqs[s].user
    /\ orders[reqs[s].oid].orderStatus = "Processing"

\* The operations of a shopper on carts and orders.
ShopperOps ==
  {"createOrder", "addToCart", "updateCartItem", "removeFromCart", "clearCart",
   "getCart", "validateCart", "cancelOrder", "updateOrderToPaid"}

\* C37: a step of a cart or order request of a user who is no admin changes no
\* other user's cart and no other user's order.
C37_OwnCartsAndOrders ==
  [][\A s \in Slots :
       ( /\ reqs'[s] # reqs[s]
         /\ reqs'[s].op \in ShopperOps
         /\ ~IsAdmin(reqs'[s].user) )
         => \A b \in Shoppers \ {reqs'[s].user} :
              /\ carts'[b] = carts[b]
              /\ Len(orders') >= Len(orders)
              /\ \A i \in 1..Len(orders) :
                   orders[i].user = b => orders'[i] = orders[i]
              /\ \A i \in (Len(orders) + 1)..Len(orders') : orders'[i].user # b
    ]_vars

\* A user has asked to pay another user's order, who also holds a cart line,
\* and got 403.
C37_Witness ==
  \E s \in Slots :
    /\ Answered(reqs[s], "updateOrderToPaid")
    /\ reqs[s].status = 403
    /\ ~IsAdmin(reqs[s].user)
    /\ orders[reqs[s].oid].user # reqs[s].user
    /\ orders[reqs[s].oid].paymentStatus = "Pending"
    /\ carts[reqs[s].user].items # <<>>

\* Request s takes the step of getOrderStats that leaves it at step pc.
StatsStep(s, pc) ==
  /\ reqs'[s].op = "getOrderStats"
  /\ reqs'[s] # reqs[s]
  /\ reqs'[s].pc = pc

RECURSIVE PaidSum(_, _)
\* The totalAmount of the Paid orders among the first n orders, added up.
PaidSum(os, n) ==
  IF n = 0 THEN 0
  ELSE PaidSum(os, n - 1)
       + (IF os[n].paymentStatus = "Paid" THEN os[n].totalAmount ELSE 0)

RECURSIVE SumCounts(_)
\* The counts of a set of groups, added up.
SumCounts(groups) ==
  IF groups = {} THEN 0
  ELSE LET g == CHOOSE g \in groups : TRUE
       IN g.count + SumCounts(groups \ {g})

\* C38: each figure of getOrderStats is that of the orders as they are when it
\* is read: totalOrders is the number of orders; totalRevenue is the sum of
\* totalAmount over the Paid orders (0 with none; Pending and Refunded orders
\* are left out); the groups by orderStatus and by paymentStatus each hold, for
\* every value, the number of orders that have it, and their counts add up to
\* totalOrders when no order was made since it was read; and no later step of
\* the request changes a figure.
C38_OrderStats ==
  [][\A s \in Slots :
       LET was == reqs[s].stats
           now == reqs'[s].stats
           Counted(groups, field) ==
             /\ \A g \in groups :
                  /\ g.count > 0
                  /\ g.count = Cardinality({i \in 1..Len(orders) :
                                              orders[i][field] = g.id})
             /\ \A i \in 1..Len(orders) :
                  \E g \in groups : g.id = orders[i][field]
             /\ was.totalOrders = Len(orders)
                  => SumCounts(groups) = was.totalOrders
       IN /\ StatsStep(s, "revenue") => now.totalOrders = Len(orders)
          /\ StatsStep(s, "byStatus")
               => /\ now.totalRevenue = PaidSum(orders, Len(orders))
                  /\ now.totalOrders = was.totalOrders
          /\ StatsStep(s, "byPayment")
               => /\ Counted(now.ordersByStatus, "orderStatus")
                  /\ now.totalOrders = was.totalOrders
                  /\ now.totalRevenue = was.totalRevenue
          /\ StatsStep(s, "monthly")
               => /\ Counted(now.ordersByPaymentStatus, "paymentStatus")
                  /\ now.totalOrders = was.totalOrders
                  /\ now.totalRevenue = was.totalRevenue
                  /\ now.ordersByStatus = was.ordersByStatus
          /\ (StatsStep(s, "done") /\ reqs'[s].status = 200)
               => /\ now.totalOrders = was.totalOrders
                  /\ now.totalRevenue = was.totalRevenue
                  /\ now.ordersByStatus = was.ordersByStatus
                  /\ now.ordersByPaymentStatus = was.ordersByPaymentStatus
    ]_vars

\* The statistics of two orders of which one is Paid: the revenue is the Paid
\* order's amount alone, and the counts of either grouping add up to two.
C38_Witness ==
  \E s \in Slots, i, j \in 1..Len(orders) :
    /\ Answered(reqs[s], "getOrderStats")
    /\ reqs[s].status = 200
    /\ orders[i].paymentStatus = "Paid"
    /\ orders[j].paymentStatus # "Paid"
    /\ reqs[s].stats.totalOrders = 2
    /\ reqs[s].stats.totalRevenue = orders[i].totalAmount
    /\ SumCounts(reqs[s].stats.ordersByStatus) = 2
    /\ SumCounts(reqs[s].stats.ordersByPaymentStatus) = 2
    /\ Cardinality(reqs[s].stats.ordersByPaymentStatus) = 2

\* The rating is the mean of the ratings of the reviews: rating.sum / rating.n
\* is their sum by their number, and 0 with no review.
IsMean(rating, reviews) ==
  IF reviews = <<>> THEN rating.sum = 0
  ELSE rating.sum * Len(reviews) = SumRatings(reviews) * rating.n

\* C39: after every createProductReview, the product's rating is the mean of
\* its reviews' ratings (0 with none), its numReviews is the number of its
\* reviews and no user has two reviews of it; and a createProductReview of a
\* user who has a review of the product answers 400 and changes no product.
C39_RatingIsMean ==
  [][\A s \in Slots :
       ( /\ reqs'[s].op = "createProductReview"
         /\ reqs'[s] # reqs[s]
         /\ reqs'[s].pc = "done" )
         => LET p == reqs'[s].named
                product == products'[p]
            IN /\ IsMean(product.rating, product.reviews)
               /\ product.numReviews = Len(product.reviews)
               /\ \A i, j \in 1..Len(product.reviews) :
                    product.reviews[i].user = product.reviews[j].user => i = j
               /\ AlreadyReviewed(products[p].reviews, reqs'[s].user)
                    => /\ reqs'[s].status = 400
                       /\ UNCHANGED products
    ]_vars

====
